---- MODULE Spec2Model ----
(***************************************************************************)
(* A model of .scripts/process_markdown.py: the line-oriented transforms   *)
(* that reorder sections of a generated markdown document.                 *)
(*                                                                         *)
(* A document is the list `content.split('\n')`: a non-empty sequence of   *)
(* lines.  A line is a sequence of tokens, each token standing for a       *)
(* fixed substring of the text (one character, or a literal such as        *)
(* `<a name="` that the code searches for as a whole).  `'\n'.join(lines)` *)
(* followed by `split('\n')` yields the same list as long as no element    *)
(* holds a newline; find_method_blocks_and_relocate inserts elements that  *)
(* do, so its list is modelled as a sequence of elements, each a sequence  *)
(* of lines, and the join flattens it.                                     *)
(*                                                                         *)
(* Python indexes from 0, TLA+ from 1: every index below is the Python     *)
(* index plus one, a section (start, end) is the half-open range           *)
(* start <= i < end in these indexes, and NoIndex stands for None / -1.    *)
(***************************************************************************)
EXTENDS Integers, Sequences, FiniteSets, Bags, TLC

VARIABLES
    file_content,   \* the document the pipeline currently holds (a sequence of lines)
    prev_content,   \* the argument of the last call (the document before it)
    op,             \* the last function called, "none" before the first call
    start_pattern,  \* start marker of the last move_to_top / move_to_bottom call
    end_pattern,    \* end marker of that call, None when unset
    raised,         \* "" or the name of the exception that ended the run
    iter,           \* iteration orders the last call met on its sets
    pc,             \* position of the __main__ block: "main", "save" or "exited"
    files,          \* the files of sys.argv[1:], each Unreadable or its content
    combined_content, \* first value combine_files_into_mdx returned, None before
    output_filename,  \* second value it returned, None before
    exit_code,      \* exit status of the process, NoExit while it runs
    written         \* the files save_combined_content has written

docvars == <<file_content, prev_content, op, start_pattern, end_pattern, raised, iter>>
mainvars == <<pc, files, combined_content, output_filename, exit_code, written>>
vars == <<file_content, prev_content, op, start_pattern, end_pattern, raised, iter,
          pc, files, combined_content, output_filename, exit_code, written>>

(***************************************************************************)
(* Bounds                                                                  *)
(***************************************************************************)
MaxDocLen == 3      \* lines of a document given to move_to_top / move_to_bottom
MaxLineLen == 2     \* characters of a line there
MaxMarkerLen == 1   \* characters of a start or end marker there
MaxRespDocLen == 4  \* lines of a document given to move_responses_to_top
MaxNameLen == 2     \* characters of an anchor name before an optional "Response"
MaxRelocDocLen == 6 \* lines of a document given to find_method_blocks_and_relocate
MaxFiles == 2       \* file paths on the command line
MaxItems == 2       \* blank-separated items of the content of one file
MaxTextLen == 5     \* tokens of a text given to correct_escaping_in_links
MaxAnchorDocLen == 6  \* lines of a document given to add_anchor_tags
MaxTabsDocLen == 6  \* lines of a document given to add_tabs_tags

(***************************************************************************)
(* Helpers on sequences                                                    *)
(***************************************************************************)
None == <<"None">>
NoIndex == 0
NoExit == -1

\* the __main__ block has not run: the state of the variables it owns
MainIdle ==
    /\ pc = "main"
    /\ files = <<>>
    /\ combined_content = None
    /\ output_filename = None
    /\ exit_code = NoExit
    /\ written = {}

\* no transform has been called: the state of the variables they own
DocIdle ==
    /\ file_content = <<>>
    /\ prev_content = <<>>
    /\ op = "none"
    /\ start_pattern = None
    /\ end_pattern = None
    /\ raised = ""
    /\ iter = <<>>

SeqsUpTo(S, n) == UNION {[1..k -> S] : k \in 0..n}

RECURSIVE Flatten(_)
Flatten(ss) == IF ss = <<>> THEN <<>> ELSE Head(ss) \o Flatten(Tail(ss))

RECURSIVE SeqToBag(_)
SeqToBag(s) == IF s = <<>> THEN EmptyBag ELSE SetToBag({Head(s)}) (+) SeqToBag(Tail(s))

\* s with the elements at the indexes of drop removed, the others in order
RECURSIVE Keep(_, _, _)
Keep(s, i, drop) ==
    IF i > Len(s) THEN <<>>
    ELSE (IF i \in drop THEN <<>> ELSE <<s[i]>>) \o Keep(s, i + 1, drop)

\* str.startswith
StartsWith(line, pattern) ==
    /\ Len(pattern) <= Len(line)
    /\ SubSeq(line, 1, Len(pattern)) = pattern

(***************************************************************************)
(* move_to_top                                                             *)
(***************************************************************************)
\* one iteration of the scan loop, st = [start_index, sections]; this one
\* closes the section a new start interrupts one line too late
move_to_top_bad_step(lines, sp, ep, i, st) ==
    IF StartsWith(lines[i], sp)
    THEN [start_index |-> i,
          sections |-> IF st.start_index # NoIndex
                       THEN Append(st.sections, <<st.start_index, i + 1>>)
                       ELSE st.sections]
    ELSE IF ep # None /\ StartsWith(lines[i], ep) /\ st.start_index # NoIndex
    THEN [start_index |-> NoIndex,
          sections |-> Append(st.sections, <<st.start_index, i>>)]
    ELSE st

\* this one forgets the section a new start interrupts
move_to_top_step_no_restart(lines, sp, ep, i, st) ==
    IF StartsWith(lines[i], sp)
    THEN [start_index |-> i, sections |-> st.sections]
    ELSE IF ep # None /\ StartsWith(lines[i], ep) /\ st.start_index # NoIndex
    THEN [start_index |-> NoIndex,
          sections |-> Append(st.sections, <<st.start_index, i>>)]
    ELSE st

move_to_top_step(lines, sp, ep, i, st) ==
    IF StartsWith(lines[i], sp)
    THEN [start_index |-> i,
          sections |-> IF st.start_index # NoIndex
                       THEN Append(st.sections, <<st.start_index, i>>)
                       ELSE st.sections]
    ELSE IF ep # None /\ StartsWith(lines[i], ep) /\ st.start_index # NoIndex
    THEN [start_index |-> NoIndex,
          sections |-> Append(st.sections, <<st.start_index, i>>)]
    ELSE st

RECURSIVE move_to_top_scan(_, _, _, _, _)
move_to_top_scan(lines, sp, ep, i, st) ==
    IF i > Len(lines) THEN st
    ELSE move_to_top_scan(lines, sp, ep, i + 1, move_to_top_step(lines, sp, ep, i, st))

\* the sections list after the loop and the closing of a still open section
move_to_top_sections(lines, sp, ep) ==
    LET st == move_to_top_scan(lines, sp, ep, 1,
                               [start_index |-> NoIndex, sections |-> <<>>])
    IN  IF st.start_index # NoIndex
        THEN Append(st.sections, <<st.start_index, Len(lines) + 1>>)
        ELSE st.sections

\* the sections in reverse order, as when each is put in front of the others
section_contents_reversed(lines, sections) ==
    [k \in 1..Len(sections) |->
        SubSeq(lines, sections[Len(sections) + 1 - k][1],
               sections[Len(sections) + 1 - k][2] - 1)]

section_contents(lines, sections) ==
    [k \in 1..Len(sections) |-> SubSeq(lines, sections[k][1], sections[k][2] - 1)]

rest_of_content(lines, sections) ==
    Keep(lines, 1, {i \in 1..Len(lines) :
                      \E k \in 1..Len(sections) : sections[k][1] <= i /\ i < sections[k][2]})

move_to_top(lines, sp, ep) ==
    LET sections == move_to_top_sections(lines, sp, ep)
    IN  Flatten(section_contents(lines, sections)) \o rest_of_content(lines, sections)

(***************************************************************************)
(* move_to_bottom                                                          *)
(***************************************************************************)
\* line 141 evaluates line.startswith(end_pattern) before it looks at
\* start_index: with end_pattern None the first line that does not start
\* with start_pattern raises TypeError
move_to_bottom_raises(lines, sp, ep) ==
    ep = None /\ \E i \in 1..Len(lines) : ~StartsWith(lines[i], sp)

\* `start_pattern in line` in place of line.startswith(start_pattern)
move_to_bottom_step_contains(lines, sp, ep, i, st) ==
    IF \E k \in 0..(Len(lines[i]) - Len(sp)) : SubSeq(lines[i], k + 1, k + Len(sp)) = sp
    THEN [start_index |-> i,
          sections |-> IF st.start_index # NoIndex
                       THEN Append(st.sections, <<st.start_index, i>>)
                       ELSE st.sections]
    ELSE IF StartsWith(lines[i], ep) /\ st.start_index # NoIndex
    THEN [start_index |-> NoIndex,
          sections |-> Append(st.sections, <<st.start_index, i>>)]
    ELSE st

move_to_bottom_step(lines, sp, ep, i, st) ==
    IF StartsWith(lines[i], sp)
    THEN [start_index |-> i,
          sections |-> IF st.start_index # NoIndex
                       THEN Append(st.sections, <<st.start_index, i>>)
                       ELSE st.sections]
    ELSE IF StartsWith(lines[i], ep) /\ st.start_index # NoIndex
    THEN [start_index |-> NoIndex,
          sections |-> Append(st.sections, <<st.start_index, i>>)]
    ELSE st

RECURSIVE move_to_bottom_scan(_, _, _, _, _)
move_to_bottom_scan(lines, sp, ep, i, st) ==
    IF i > Len(lines) THEN st
    ELSE move_to_bottom_scan(lines, sp, ep, i + 1, move_to_bottom_step(lines, sp, ep, i, st))

move_to_bottom_sections(lines, sp, ep) ==
    LET st == move_to_bottom_scan(lines, sp, ep, 1,
                                  [start_index |-> NoIndex, sections |-> <<>>])
    IN  IF st.start_index # NoIndex
        THEN Append(st.sections, <<st.start_index, Len(lines) + 1>>)
        ELSE st.sections

\* the value returned when the call does not raise
move_to_bottom(lines, sp, ep) ==
    LET sections == move_to_bottom_sections(lines, sp, ep)
    IN  rest_of_content(lines, sections) \o Flatten(section_contents(lines, sections))

(***************************************************************************)
(* Specification of the section relocator: documents over a two-letter     *)
(* alphabet, markers that are prefixes of such lines.  A behaviour is one  *)
(* call on one document; the initial documents are all the documents of    *)
(* the bounds, so a call on the result of an earlier call is the call of   *)
(* the behaviour that starts with that result.                             *)
(***************************************************************************)
Chars == {"a", "b"}
MoveLines == SeqsUpTo(Chars, MaxLineLen)
MoveDocs == SeqsUpTo(MoveLines, MaxDocLen) \ {<<>>}
MoveMarkers == SeqsUpTo(Chars, MaxMarkerLen)

InitMove ==
    /\ MainIdle
    /\ file_content \in MoveDocs
    /\ prev_content = file_content
    /\ op = "none"
    /\ start_pattern = None
    /\ end_pattern = None
    /\ raised = ""
    /\ iter = <<>>

MoveToTop ==
    /\ UNCHANGED mainvars
    /\ raised = ""
    /\ op = "none"
    /\ \E sp \in MoveMarkers, ep \in MoveMarkers \cup {None} :
         /\ start_pattern' = sp
         /\ end_pattern' = ep
         /\ file_content' = move_to_top(file_content, sp, ep)
    /\ prev_content' = file_content
    /\ op' = "move_to_top"
    /\ UNCHANGED <<raised, iter>>

MoveToBottom ==
    /\ UNCHANGED mainvars
    /\ raised = ""
    /\ op = "none"
    /\ \E sp \in MoveMarkers, ep \in MoveMarkers \cup {None} :
         /\ start_pattern' = sp
         /\ end_pattern' = ep
         /\ IF move_to_bottom_raises(file_content, sp, ep)
            THEN /\ raised' = "TypeError"
                 /\ file_content' = file_content
            ELSE /\ raised' = ""
                 /\ file_content' = move_to_bottom(file_content, sp, ep)
    /\ prev_content' = file_content
    /\ op' = "move_to_bottom"
    /\ UNCHANGED iter

NextMove == MoveToTop \/ MoveToBottom

SpecMove == InitMove /\ [][NextMove]_vars

(***************************************************************************)
(* Specification of the repeated call: the call of SpecMove and then the   *)
(* same function once more on the content it returned, with the markers of *)
(* the first call.  A call that raised returned nothing to call again on.  *)
(***************************************************************************)
MoveToTopAgain ==
    /\ UNCHANGED mainvars
    /\ op = "move_to_top"
    /\ file_content' = move_to_top(file_content, start_pattern, end_pattern)
    /\ prev_content' = file_content
    /\ op' = "move_to_top_again"
    /\ UNCHANGED <<start_pattern, end_pattern, raised, iter>>

MoveToBottomAgain ==
    /\ UNCHANGED mainvars
    /\ op = "move_to_bottom"
    /\ raised = ""
    /\ IF move_to_bottom_raises(file_content, start_pattern, end_pattern)
       THEN /\ raised' = "TypeError"
            /\ file_content' = file_content
       ELSE /\ raised' = ""
            /\ file_content' = move_to_bottom(file_content, start_pattern, end_pattern)
    /\ prev_content' = file_content
    /\ op' = "move_to_bottom_again"
    /\ UNCHANGED <<start_pattern, end_pattern, iter>>

NextMoveTwice == MoveToTop \/ MoveToBottom \/ MoveToTopAgain \/ MoveToBottomAgain

SpecMoveTwice == InitMove /\ [][NextMoveTwice]_vars

(***************************************************************************)
(* move_responses_to_top                                                   *)
(*                                                                         *)
(* An anchor line is the token `<a name="`, the characters of the name     *)
(* (the literal "Response" is one token) and the token `"></a>`.  The      *)
(* documents of this part hold whole-line anchors and text lines, so the   *)
(* offset str.find returns orders as the index of the line it finds.       *)
(***************************************************************************)
AOpen == "<a name=\""
AClose == "\"></a>"
Anchor(name) == <<AOpen>> \o name \o <<AClose>>
IsAnchor(line) == Len(line) >= 2 /\ line[1] = AOpen /\ line[Len(line)] = AClose
AnchorName(line) == SubSeq(line, 2, Len(line) - 1)

Permutations_of(S) ==
    {f \in [1..Cardinality(S) -> S] : \A i, j \in 1..Cardinality(S) : f[i] = f[j] => i = j}

\* str.find of a whole-line anchor: the first line equal to it, NoIndex for -1
Find(lines, line) ==
    IF \E i \in 1..Len(lines) : lines[i] = line
    THEN CHOOSE i \in 1..Len(lines) :
            lines[i] = line /\ \A j \in 1..(i - 1) : lines[j] # line
    ELSE NoIndex

\* re.findall(r'<a name="([^"]*Response)(?=")"></a>'): the names ending in Response
response_struct_patterns(lines) ==
    {AnchorName(lines[i]) : i \in {j \in 1..Len(lines) :
        /\ IsAnchor(lines[j])
        /\ AnchorName(lines[j]) # <<>>
        /\ AnchorName(lines[j])[Len(AnchorName(lines[j]))] = "Response"}}

\* re.findall(r'<a name="((?!Response).)*">'): the pattern matches the anchors
\* whose name holds no "Response"; its group is repeated, so findall returns
\* what the group matched last, the last character of the name ('' for an
\* empty name)
non_response_patterns(lines) ==
    {IF AnchorName(lines[i]) = <<>> THEN <<>>
     ELSE <<AnchorName(lines[i])[Len(AnchorName(lines[i]))]>> :
        i \in {j \in 1..Len(lines) :
            /\ IsAnchor(lines[j])
            /\ \A k \in 1..Len(AnchorName(lines[j])) : AnchorName(lines[j])[k] # "Response"}}

\* the inner loop: the first non-response pattern, in the set's iteration
\* order, found behind the response anchor
RECURSIVE find_end_pattern(_, _, _, _)
find_end_pattern(lines, sp, non_order, k) ==
    IF k > Len(non_order) THEN None
    ELSE IF Find(lines, Anchor(non_order[k])) > Find(lines, sp)
         THEN Anchor(non_order[k])
         ELSE find_end_pattern(lines, sp, non_order, k + 1)

\* the outer loop from the k-th response pattern of the iteration order on;
\* the end pattern is looked up in the original content, the move is applied
\* to the content modified so far
RECURSIVE move_responses_loop(_, _, _, _, _)
move_responses_loop(lines, modified, resp_order, non_order, k) ==
    IF k > Len(resp_order) THEN modified
    ELSE move_responses_loop(lines,
            move_to_top(modified, Anchor(resp_order[k]),
                        find_end_pattern(lines, Anchor(resp_order[k]), non_order, 1)),
            resp_order, non_order, k + 1)

move_responses_to_top(lines, resp_order, non_order) ==
    move_responses_loop(lines, lines, resp_order, non_order, 1)

(***************************************************************************)
(* Specification of move_responses_to_top.  Python iterates a set of       *)
(* strings in an order that depends on the hash seed of the run: the       *)
(* action may meet any order of either set.  process_file calls the        *)
(* function once per document (line 574).                                  *)
(***************************************************************************)
NameChars == {"a", "b"}
RespNames ==
    SeqsUpTo(NameChars, MaxNameLen)
    \cup {n \o <<"Response">> : n \in SeqsUpTo(NameChars, MaxNameLen)}
RespLines == {Anchor(n) : n \in RespNames} \cup {<<"t">>}
RespDocs == SeqsUpTo(RespLines, MaxRespDocLen) \ {<<>>}

InitResp ==
    /\ MainIdle
    /\ file_content \in RespDocs
    /\ prev_content = file_content
    /\ op = "none"
    /\ start_pattern = None
    /\ end_pattern = None
    /\ raised = ""
    /\ iter = <<>>

MoveResponsesToTop ==
    /\ UNCHANGED mainvars
    /\ raised = ""
    /\ op = "none"
    /\ \E ro \in Permutations_of(response_struct_patterns(file_content)),
          no \in Permutations_of(non_response_patterns(file_content)) :
         /\ iter' = <<ro, no>>
         /\ file_content' = move_responses_to_top(file_content, ro, no)
    /\ prev_content' = file_content
    /\ op' = "move_responses_to_top"
    /\ UNCHANGED <<start_pattern, end_pattern, raised>>

NextResp == MoveResponsesToTop

SpecResp == InitResp /\ [][NextResp]_vars

(***************************************************************************)
(* find_method_blocks_and_relocate                                         *)
(*                                                                         *)
(* The list `lines` comes to hold elements of several lines (the block     *)
(* contents it inserts): it is a sequence of elements, each a sequence of  *)
(* lines, and the final join flattens it.  Lines carry no leading or       *)
(* trailing blanks, so line.strip() is the line.                           *)
(***************************************************************************)
EmptyLine == <<>>
DotTokens == {".Get", ".Raw", ".Packed", ".Set"}
RequestTokens == {"XRequest"}

\* stripped_line.startswith('<a')
StartsWithA(line) == Len(line) >= 1 /\ line[1] = AOpen

\* stripped_line.startswith('<a') and "Request" in stripped_line
IsTypeAnchor(line) ==
    StartsWithA(line) /\ \E k \in 1..Len(line) : line[k] \in RequestTokens

\* "## type" in lines[j]
HasTypeHeading(line) == \E k \in 1..Len(line) : line[k] = "## type"

\* stripped_line.startswith(f'<a name="{type_name}.')
IsMethodAnchor(line, type_name) ==
    /\ Len(line) >= Len(type_name) + 2
    /\ line[1] = AOpen
    /\ SubSeq(line, 2, Len(type_name) + 1) = type_name
    /\ line[Len(type_name) + 2] \in DotTokens

\* list.insert(index, x) with p = index + 1: x comes before the element at
\* position p, behind the last element when p is beyond the list
InsertAt(s, p, x) ==
    IF p > Len(s) THEN Append(s, x)
    ELSE SubSeq(s, 1, p - 1) \o <<x>> \o SubSeq(s, p, Len(s))

\* del s[start:end+1] with a = start + 1 and b = end + 1
DelRange(s, a, b) ==
    IF a > Len(s) \/ b < a THEN s
    ELSE SubSeq(s, 1, a - 1) \o SubSeq(s, (IF b > Len(s) THEN Len(s) ELSE b) + 1, Len(s))

\* '\n'.join(lines[start:end+1]) as the lines it splits into: the empty
\* string is one empty line
BlockContent(lines, a, b) ==
    IF SubSeq(lines, a, b) = <<>> THEN <<EmptyLine>> ELSE SubSeq(lines, a, b)

RelocInitState ==
    [type_definition_found |-> FALSE, type_end_loop |-> FALSE, type_name |-> <<>>,
     type_end_line |-> 1, first_method_line_number |-> NoIndex,
     end_line_number |-> NoIndex, method_blocks |-> <<>>, unbound |-> FALSE]

\* lines 178-185: the end of the type section, looked for once, from the
\* second line behind the line that follows the type anchor
reloc_type_end(lines, i, st) ==
    IF st.type_definition_found /\ ~st.type_end_loop
    THEN [st EXCEPT
            !.type_end_line =
                IF \E j \in (i + 1)..Len(lines) : HasTypeHeading(lines[j])
                THEN CHOOSE j \in (i + 1)..Len(lines) :
                        /\ HasTypeHeading(lines[j])
                        /\ \A k \in (i + 1)..(j - 1) : ~HasTypeHeading(lines[k])
                ELSE Len(lines),
            !.type_end_loop = TRUE]
    ELSE st

\* lines 189-196: the block ends before the next line starting with '<a';
\* without such a line end_line_number keeps the value it had
reloc_method_bounds(lines, i, st) ==
    [st EXCEPT
        !.end_line_number =
            IF \E j \in (i + 1)..Len(lines) : StartsWithA(lines[j])
            THEN (CHOOSE j \in (i + 1)..Len(lines) :
                    /\ StartsWithA(lines[j])
                    /\ \A k \in (i + 1)..(j - 1) : ~StartsWithA(lines[k])) - 1
            ELSE @,
        !.first_method_line_number = IF @ = NoIndex \/ i < @ THEN i ELSE @]

\* lines 199-207: a Get, Raw or Packed anchor records its block; reading
\* end_line_number before any assignment raises UnboundLocalError
reloc_record_block(lines, i, st) ==
    IF \E suffix \in {".Get", ".Raw", ".Packed"} : lines[i] = Anchor(st.type_name \o <<suffix>>)
    THEN LET suffix == CHOOSE x \in {".Get", ".Raw", ".Packed"} :
                            lines[i] = Anchor(st.type_name \o <<x>>)
         IN  IF st.end_line_number = NoIndex
             THEN [st EXCEPT !.unbound = TRUE]
             ELSE [st EXCEPT !.method_blocks =
                     [x \in (DOMAIN st.method_blocks) \cup {suffix} |->
                        IF x = suffix
                        THEN [start_line_number |-> i,
                              end_line_number |-> st.end_line_number,
                              content |-> BlockContent(lines, i, st.end_line_number)]
                        ELSE st.method_blocks[x]]]
    ELSE st

\* one iteration of the loop of lines 170-207
reloc_step(lines, i, st) ==
    IF ~st.type_definition_found /\ IsTypeAnchor(lines[i])
    THEN [st EXCEPT !.type_definition_found = TRUE, !.type_name = AnchorName(lines[i])]
    ELSE LET st1 == reloc_type_end(lines, i, st)
         IN  IF st1.type_definition_found /\ IsMethodAnchor(lines[i], st1.type_name)
             THEN reloc_record_block(lines, i, reloc_method_bounds(lines, i, st1))
             ELSE st1

RECURSIVE reloc_scan(_, _, _)
reloc_scan(lines, i, st) ==
    IF i > Len(lines) \/ st.unbound THEN st
    ELSE reloc_scan(lines, i + 1, reloc_step(lines, i, st))

\* the suffixes of order that have a block, in that order
RECURSIVE PresentIn(_, _)
PresentIn(order, blocks) ==
    IF order = <<>> THEN <<>>
    ELSE (IF Head(order) \in DOMAIN blocks THEN <<Head(order)>> ELSE <<>>)
         \o PresentIn(Tail(order), blocks)

\* line 210: sorted by the index in [".Get", ".Packed", ".Raw"]
sorted_methods(blocks) == PresentIn(<<".Get", ".Packed", ".Raw">>, blocks)

\* line 223: sorted(method_blocks.items(), reverse=True) compares the keys,
\* the suffix strings: ".Raw" > ".Packed" > ".Get"
deletion_order(blocks) == PresentIn(<<".Raw", ".Packed", ".Get">>, blocks)

\* lines 218-220: each content goes in as one element at type_end_line + 1,
\* and type_end_line grows by the number of lines of the content
RECURSIVE reloc_insert(_, _, _, _)
reloc_insert(elems, type_end_line, order, blocks) ==
    IF order = <<>> THEN elems
    ELSE reloc_insert(InsertAt(elems, type_end_line + 1, blocks[Head(order)].content),
                      type_end_line + Len(blocks[Head(order)].content),
                      Tail(order), blocks)

\* lines 223-224
RECURSIVE reloc_delete(_, _, _)
reloc_delete(elems, order, blocks) ==
    IF order = <<>> THEN elems
    ELSE reloc_delete(DelRange(elems, blocks[Head(order)].start_line_number,
                               blocks[Head(order)].end_line_number),
                      Tail(order), blocks)

ExecutionHeader(type_name) == <<"## ">> \o type_name \o <<" Execution Methods">>
SetterHeader(type_name) == <<"## ">> \o type_name \o <<" Setter Methods">>

find_method_blocks_raises(lines) == reloc_scan(lines, 1, RelocInitState).unbound

\* the value returned when the call does not raise
find_method_blocks_and_relocate(lines) ==
    LET st == reloc_scan(lines, 1, RelocInitState)
        elems0 == [k \in 1..Len(lines) |-> <<lines[k]>>]
        elems1 == IF st.type_definition_found
                  THEN InsertAt(elems0, st.type_end_line, <<ExecutionHeader(st.type_name)>>)
                  ELSE elems0
        elems2 == reloc_insert(elems1, st.type_end_line,
                               sorted_methods(st.method_blocks), st.method_blocks)
        elems3 == reloc_delete(elems2, deletion_order(st.method_blocks), st.method_blocks)
        elems4 == IF st.type_definition_found /\ st.first_method_line_number # NoIndex
                  THEN InsertAt(elems3, st.first_method_line_number - 1,
                                <<SetterHeader(st.type_name)>>)
                  ELSE elems3
    IN  Flatten(elems4)

(***************************************************************************)
(* Specification of find_method_blocks_and_relocate: documents over the    *)
(* anchors of one request type, a foreign anchor, a type heading and text. *)
(* process_file calls the function once per document (line 573).           *)
(***************************************************************************)
TypeX == <<"XRequest">>
RelocLines ==
    {Anchor(TypeX), Anchor(<<"Other">>), <<"## type", " Other">>, <<"t">>}
    \cup {Anchor(TypeX \o <<d>>) : d \in DotTokens}
RelocDocs == SeqsUpTo(RelocLines, MaxRelocDocLen) \ {<<>>}

InitReloc ==
    /\ MainIdle
    /\ file_content \in RelocDocs
    /\ prev_content = file_content
    /\ op = "none"
    /\ start_pattern = None
    /\ end_pattern = None
    /\ raised = ""
    /\ iter = <<>>

FindMethodBlocksAndRelocate ==
    /\ UNCHANGED mainvars
    /\ raised = ""
    /\ op = "none"
    /\ IF find_method_blocks_raises(file_content)
       THEN /\ raised' = "UnboundLocalError"
            /\ file_content' = file_content
       ELSE /\ raised' = ""
            /\ file_content' = find_method_blocks_and_relocate(file_content)
    /\ prev_content' = file_content
    /\ op' = "find_method_blocks_and_relocate"
    /\ UNCHANGED <<start_pattern, end_pattern, iter>>

NextReloc == FindMethodBlocksAndRelocate

SpecReloc == InitReloc /\ [][NextReloc]_vars

(***************************************************************************)
(* combine_files_into_mdx, save_combined_content and the __main__ block    *)
(*                                                                         *)
(* A content is a sequence of items, the pieces of text that blanks and    *)
(* newlines separate; an item is a sequence of tokens.  A URL is an item   *)
(* that starts with the token "https://www.marketdata.app/docs", the only  *)
(* items of this part that the pattern of line 603 matches.  In the URL of the SDK client the text "/sdk/" is the token    *)
(* "/sdk" and the first character of the token "/go/".                     *)
(***************************************************************************)
Unreadable == <<"Unreadable">>
UrlBase == "https://www.marketdata.app/docs"
ApiUrl(path) == <<UrlBase, "/api/", path>>
SdkClientUrl == <<UrlBase, "/sdk", "/go/", "client">>

\* the table of lines 7-25
URL_TO_INFO ==
    LET api == [path \in {"markets/status", "indices/candles", "indices/quotes",
                          "stocks/candles", "stocks/bulkcandles", "stocks/quotes",
                          "stocks/bulkquotes", "stocks/earnings", "stocks/news",
                          "options/expirations", "options/lookup", "options/strikes",
                          "options/chain", "options/quotes"} |->
                  CASE path = "markets/status" -> [title |-> "Status", sidebar_position |-> 1]
                    [] path = "indices/candles" -> [title |-> "Candles", sidebar_position |-> 1]
                    [] path = "indices/quotes" -> [title |-> "Quotes", sidebar_position |-> 2]
                    [] path = "stocks/candles" -> [title |-> "Candles", sidebar_position |-> 1]
                    [] path = "stocks/bulkcandles" -> [title |-> "Bulk Candles", sidebar_position |-> 2]
                    [] path = "stocks/quotes" -> [title |-> "Quotes", sidebar_position |-> 3]
                    [] path = "stocks/bulkquotes" -> [title |-> "Bulk Quotes", sidebar_position |-> 4]
                    [] path = "stocks/earnings" -> [title |-> "Earnings", sidebar_position |-> 5]
                    [] path = "stocks/news" -> [title |-> "News", sidebar_position |-> 6]
                    [] path = "options/expirations" -> [title |-> "Expirations", sidebar_position |-> 1]
                    [] path = "options/lookup" -> [title |-> "Lookup", sidebar_position |-> 2]
                    [] path = "options/strikes" -> [title |-> "Strikes", sidebar_position |-> 3]
                    [] path = "options/chain" -> [title |-> "Option Chain", sidebar_position |-> 4]
                    [] path = "options/quotes" -> [title |-> "Quotes", sidebar_position |-> 5]]
    IN  [url \in {ApiUrl(path) : path \in DOMAIN api} \cup {SdkClientUrl} |->
            IF url = SdkClientUrl THEN [title |-> "Client", sidebar_position |-> 3]
            ELSE api[url[3]]]

IsUrl(item) == item # <<>> /\ item[1] = UrlBase

\* re.findall(r'https?://[^\s)>]+', combined_content)
RECURSIVE urls_found(_)
urls_found(content) ==
    IF content = <<>> THEN <<>>
    ELSE (IF IsUrl(Head(content)) THEN <<Head(content)>> ELSE <<>>)
         \o urls_found(Tail(content))

\* the list of line 604 without its condition
urls_to_process_unfiltered(found) == found

\* [url for url in urls_found if url in URL_TO_INFO]
RECURSIVE urls_to_process(_)
urls_to_process(found) ==
    IF found = <<>> THEN <<>>
    ELSE (IF Head(found) \in DOMAIN URL_TO_INFO THEN <<Head(found)>> ELSE <<>>)
         \o urls_to_process(Tail(found))

\* lines 594-600: every file followed by "\n\n"; Unreadable when open() or
\* read() of some file raises
RECURSIVE read_all(_)
read_all(fs) ==
    IF fs = <<>> THEN <<>>
    ELSE IF Head(fs) = Unreadable \/ read_all(Tail(fs)) = Unreadable THEN Unreadable
    ELSE Head(fs) \o <<<<"\n\n">>>> \o read_all(Tail(fs))

ContainsSdk(url) == \E k \in 1..(Len(url) - 1) : url[k] = "/sdk" /\ url[k + 1] = "/go/"
ContainsApi(url) == \E k \in 1..Len(url) : url[k] = "/api/"

\* url.split(sep)[-1]: what follows the last sep, the whole url without one
AfterLast(url, sep) ==
    IF \E k \in 1..Len(url) : url[k] = sep
    THEN SubSeq(url, (CHOOSE k \in 1..Len(url) :
                        url[k] = sep /\ \A j \in (k + 1)..Len(url) : url[j] # sep) + 1,
                Len(url))
    ELSE url

\* lines 610-625: the state of the loop, [content, output_filename], from the
\* k-th url on; output_filename stays None (unbound) when no url sets it
RECURSIVE header_loop(_, _, _)
header_loop(urls, k, content) ==
    IF k > Len(urls) THEN [content |-> content, output_filename |-> None]
    ELSE IF urls[k] \in DOMAIN URL_TO_INFO
    THEN LET info == URL_TO_INFO[urls[k]]
             with_header == <<<<"---\n">>, <<"title: ", info.title, "\n">>,
                              <<"sidebar_position: ", info.sidebar_position, "\n">>,
                              <<"---\n\n">>>> \o content
         IN  IF ContainsSdk(urls[k])
             THEN [content |-> with_header,
                   output_filename |-> <<"go", "/">> \o AfterLast(urls[k], "/go/") \o <<".mdx">>]
             ELSE IF ContainsApi(urls[k])
             THEN [content |-> with_header,
                   output_filename |-> <<"go", "/">> \o AfterLast(urls[k], "/api/") \o <<".mdx">>]
             ELSE header_loop(urls, k + 1, with_header)
    ELSE header_loop(urls, k + 1, content)

\* lines 627-629: the imports behind the first "---\n\n" when the content
\* holds "<Tabs>"
with_imports(content) ==
    IF (\E k \in 1..Len(content) : content[k] = <<"<Tabs>">>)
       /\ (\E k \in 1..Len(content) : content[k] = <<"---\n\n">>)
    THEN LET k == CHOOSE k \in 1..Len(content) :
                    content[k] = <<"---\n\n">> /\ \A j \in 1..(k - 1) : content[j] # <<"---\n\n">>
         IN  SubSeq(content, 1, k) \o <<<<"import Tabs", "import TabItem">>>>
             \o SubSeq(content, k + 1, Len(content))
    ELSE content

\* the outcome of combine_files_into_mdx: "return" with the two values,
\* "exit" for sys.exit(1), "raise" for the unbound output_filename of line 631
combine_files_into_mdx(fs) ==
    LET content == read_all(fs) IN
    IF content = Unreadable
    THEN [kind |-> "return", combined_content |-> None, output_filename |-> None]
    ELSE LET urls == urls_to_process(urls_found(content)) IN
         IF urls = <<>>
         THEN [kind |-> "exit", combined_content |-> None, output_filename |-> None]
         ELSE LET r == header_loop(urls, 1, content) IN
              IF r.output_filename = None
              THEN [kind |-> "raise", combined_content |-> None, output_filename |-> None]
              ELSE [kind |-> "return", combined_content |-> with_imports(r.content),
                    output_filename |-> r.output_filename]

(***************************************************************************)
(* Specification of the __main__ block from the combine phase on: the      *)
(* files hold what process_file has left in them.  A traceback ends the    *)
(* process with status 1, the end of the script with status 0.             *)
(***************************************************************************)
Items == {ApiUrl("stocks/candles"), SdkClientUrl, ApiUrl("unknown"), <<"<Tabs>">>}
Contents == SeqsUpTo(Items, MaxItems) \cup {Unreadable}

InitMain ==
    /\ DocIdle
    /\ pc = "main"
    /\ files \in SeqsUpTo(Contents, MaxFiles)
    /\ combined_content = None
    /\ output_filename = None
    /\ exit_code = NoExit
    /\ written = {}

\* lines 655-657
Usage ==
    /\ pc = "main"
    /\ files = <<>>
    /\ pc' = "exited"
    /\ exit_code' = 1
    /\ UNCHANGED <<files, combined_content, output_filename, written>>
    /\ UNCHANGED docvars

\* lines 662-664
CombineFiles ==
    /\ pc = "main"
    /\ files # <<>>
    /\ LET r == combine_files_into_mdx(files) IN
         /\ combined_content' = r.combined_content
         /\ output_filename' = r.output_filename
         /\ raised' = IF r.kind = "raise" THEN "UnboundLocalError" ELSE ""
         /\ IF r.kind \in {"exit", "raise"}
            THEN pc' = "exited" /\ exit_code' = 1
            ELSE IF r.combined_content # None /\ r.output_filename # None
            THEN pc' = "save" /\ exit_code' = NoExit
            ELSE pc' = "exited" /\ exit_code' = 0
    /\ UNCHANGED <<files, written>>
    /\ UNCHANGED <<file_content, prev_content, op, start_pattern, end_pattern, iter>>

\* line 665 and lines 633-652: nothing is written when the content is empty,
\* or when makedirs or the write raises, which the function catches
SaveCombinedContent ==
    /\ pc = "save"
    /\ \E io_ok \in BOOLEAN :
         written' = IF combined_content # <<>> /\ output_filename # <<>> /\ io_ok
                    THEN written \cup {[name |-> output_filename, content |-> combined_content]}
                    ELSE written
    /\ pc' = "exited"
    /\ exit_code' = 0
    /\ UNCHANGED <<files, combined_content, output_filename>>
    /\ UNCHANGED docvars

NextMain == Usage \/ CombineFiles \/ SaveCombinedContent

SpecMain == InitMain /\ [][NextMain]_vars

(***************************************************************************)
(* correct_escaping_in_links                                               *)
(*                                                                         *)
(* The text is a sequence of tokens: the characters "[", "]", "\", "{",    *)
(* "}", the literal "/v1" and pieces of other text.                        *)
(***************************************************************************)
\* the token of the character U+0060, which no string of the module can hold
Backtick == "backtick"

\* the pattern (\[/v1[^\]]+\]) matches at i: "[", "/v1", one token or more
\* that are not "]", and the first "]" behind them
MatchEnd(text, i) ==
    IF /\ i + 3 <= Len(text)
       /\ text[i] = "["
       /\ text[i + 1] = "/v1"
       /\ text[i + 2] # "]"
       /\ \E j \in (i + 3)..Len(text) : text[j] = "]"
    THEN CHOOSE j \in (i + 3)..Len(text) :
            text[j] = "]" /\ \A k \in (i + 3)..(j - 1) : text[k] # "]"
    ELSE NoIndex

\* match.group(0).replace('\\', '')
RECURSIVE RemoveBackslashes(_)
RemoveBackslashes(m) ==
    IF m = <<>> THEN <<>>
    ELSE (IF Head(m) = "\\" THEN <<>> ELSE <<Head(m)>>) \o RemoveBackslashes(Tail(m))

\* the replacement without the removal of the backslashes
keep_escapes_and_check_braces(m) ==
    IF \E k \in 1..Len(m) : m[k] \in {"{", "}"}
    THEN <<m[1], Backtick>> \o SubSeq(m, 2, Len(m) - 1) \o <<Backtick, m[Len(m)]>>
    ELSE m

\* lines 372-379
remove_escapes_and_check_braces(m) ==
    LET cleaned_match == RemoveBackslashes(m)
    IN  IF \E k \in 1..Len(cleaned_match) : cleaned_match[k] \in {"{", "}"}
        THEN <<cleaned_match[1], Backtick>>
             \o SubSeq(cleaned_match, 2, Len(cleaned_match) - 1)
             \o <<Backtick, cleaned_match[Len(cleaned_match)]>>
        ELSE cleaned_match

\* re.sub from position i on: the leftmost matches, none overlapping
RECURSIVE escaping_sub(_, _)
escaping_sub(text, i) ==
    IF i > Len(text) THEN <<>>
    ELSE IF MatchEnd(text, i) # NoIndex
    THEN remove_escapes_and_check_braces(SubSeq(text, i, MatchEnd(text, i)))
         \o escaping_sub(text, MatchEnd(text, i) + 1)
    ELSE <<text[i]>> \o escaping_sub(text, i + 1)

correct_escaping_in_links(text) == escaping_sub(text, 1)

(***************************************************************************)
(* Specification of correct_escaping_in_links: file_content holds the      *)
(* text, every short text and the link [/v1\\/foo/{bar}]                   *)
(***************************************************************************)
EscapeTokens == {"[", "]", "/v1", "\\", "{", "}", "x"}
BracedLink == <<"[", "/v1", "\\", "\\", "/foo/", "{", "bar", "}", "]">>
EscapeTexts == SeqsUpTo(EscapeTokens, MaxTextLen) \cup {BracedLink}

InitEscape ==
    /\ MainIdle
    /\ file_content \in EscapeTexts
    /\ prev_content = file_content
    /\ op = "none"
    /\ start_pattern = None
    /\ end_pattern = None
    /\ raised = ""
    /\ iter = <<>>

CorrectEscapingInLinks ==
    /\ UNCHANGED mainvars
    /\ op = "none"
    /\ file_content' = correct_escaping_in_links(file_content)
    /\ prev_content' = file_content
    /\ op' = "correct_escaping_in_links"
    /\ UNCHANGED <<start_pattern, end_pattern, raised, iter>>

NextEscape == CorrectEscapingInLinks

SpecEscape == InitEscape /\ [][NextEscape]_vars

(***************************************************************************)
(* add_anchor_tags                                                         *)
(*                                                                         *)
(* A "type " line is the token "type ", the name of the type and the rest  *)
(* of the line; a list line is the token "- ", a backtick, the tokens of   *)
(* the method name, "(" and the rest of the line.                          *)
(***************************************************************************)
\* line 569
sections_to_process ==
    {<<"#### Setter Methods">>, <<"#### Execution Methods">>,
     <<"#### Methods">>, <<"#### Generated By">>}

\* line.startswith('-')
StartsWithDash(line) == Len(line) >= 1 /\ line[1] = "- "

\* prev_line.strip().startswith("type ")
IsTypeLine(line) == Len(line) >= 2 /\ line[1] = "type "

\* lines 306-311: the type of the last "type " line before the FIRST line of
\* the document that equals line (lines.index(line))
type_word_of(lines, line) ==
    LET previous_lines == SubSeq(lines, 1, Find(lines, line) - 1)
        types == {j \in 1..Len(previous_lines) : IsTypeLine(previous_lines[j])}
    IN  IF types = {} THEN <<>>
        ELSE <<previous_lines[CHOOSE j \in types : \A k \in types : k <= j][2]>>

\* line[line.find('`')+1:line.find('(')].strip()
anchor_of(line) == SubSeq(line, Find(line, Backtick) + 1, Find(line, "(") - 1)

\* line 314
typed_anchor_line(lines, line) ==
    <<"- ", "<a href=\"#">> \o type_word_of(lines, line) \o <<".">>
        \o anchor_of(line) \o <<"\">", Backtick>>
        \o SubSeq(line, 3, Len(line)) \o <<"</a>">>

\* line 318
plain_anchor_line(line) ==
    <<"- ", "<a href=\"#">> \o anchor_of(line) \o <<"\">", Backtick>>
        \o SubSeq(line, 3, Len(line)) \o <<"</a>">>

AnchorInitState ==
    [processing |-> FALSE, matched_string |-> None, found_first_dash |-> FALSE]

\* one pass of the loop of lines 287-327 over line: the new state of the
\* scan and the line appended to processed_lines
anchor_step(lines, line, st) ==
    IF line \in sections_to_process
    THEN [st |-> [processing |-> TRUE, matched_string |-> line,
                  found_first_dash |-> FALSE],
          out |-> line]
    ELSE IF ~st.processing THEN [st |-> st, out |-> line]
    ELSE IF ~st.found_first_dash /\ ~StartsWithDash(line)
    THEN [st |-> st, out |-> line]
    ELSE LET st1 == [st EXCEPT !.found_first_dash = TRUE]
         IN  IF StartsWithDash(line)
             THEN [st |-> st1,
                   out |-> IF st.matched_string # <<"#### Generated By">>
                           THEN typed_anchor_line(lines, line)
                           ELSE plain_anchor_line(line)]
             ELSE IF line = EmptyLine \/ line[1] = "  "
             THEN [st |-> st1, out |-> line]
             ELSE [st |-> [st1 EXCEPT !.processing = FALSE], out |-> line]

RECURSIVE anchor_scan(_, _, _)
anchor_scan(lines, i, st) ==
    IF i > Len(lines) THEN <<>>
    ELSE LET r == anchor_step(lines, lines[i], st)
         IN  <<r.out>> \o anchor_scan(lines, i + 1, r.st)

add_anchor_tags(lines) == anchor_scan(lines, 1, AnchorInitState)

(***************************************************************************)
(* Specification of add_anchor_tags                                        *)
(***************************************************************************)
TypeLine(T) == <<"type ", T, " struct {">>
ListLine(m) == <<"- ", Backtick, m, "(", ")", Backtick>>
AnchorLines ==
    {TypeLine("A"), TypeLine("B"), <<"#### Setter Methods">>,
     <<"#### Generated By">>, ListLine("Get"), ListLine("Raw"), EmptyLine}
AnchorDocs == SeqsUpTo(AnchorLines, MaxAnchorDocLen) \ {<<>>}

InitAnchors ==
    /\ MainIdle
    /\ file_content \in AnchorDocs
    /\ prev_content = file_content
    /\ op = "none"
    /\ start_pattern = None
    /\ end_pattern = None
    /\ raised = ""
    /\ iter = <<>>

AddAnchorTags ==
    /\ UNCHANGED mainvars
    /\ op = "none"
    /\ file_content' = add_anchor_tags(file_content)
    /\ prev_content' = file_content
    /\ op' = "add_anchor_tags"
    /\ UNCHANGED <<start_pattern, end_pattern, raised, iter>>

NextAnchors == AddAnchorTags

SpecAnchors == InitAnchors /\ [][NextAnchors]_vars

(***************************************************************************)
(* add_tabs_tags                                                           *)
(***************************************************************************)
\* trimmed_line.startswith('<TabItem')
StartsWithTabItem(line) == Len(line) >= 1 /\ line[1] = "<TabItem"

\* trimmed_line.endswith('</TabItem>')
EndsWithTabItem(line) == Len(line) >= 1 /\ line[Len(line)] = "</TabItem>"

\* the test of the neighbouring line alone, blank or not
is_next_line_tabitem(lines, start_index, direction) ==
    LET index == start_index + direction
    IN  IF index < 1 \/ index > Len(lines) THEN FALSE
        ELSE IF direction = 1 THEN StartsWithTabItem(lines[index])
        ELSE EndsWithTabItem(lines[index])

\* lines 468-475 (start_index is 1-based): the index moves over
\* the blank lines in the direction and the line it stops at, if any, is
\* tested for the opening (forward) or the closing (backward) tag
RECURSIVE is_next_non_blank_line_tabitem(_, _, _)
is_next_non_blank_line_tabitem(lines, start_index, direction) ==
    LET index == start_index + direction
    IN  IF index < 1 \/ index > Len(lines) THEN FALSE
        ELSE IF lines[index] = EmptyLine
        THEN is_next_non_blank_line_tabitem(lines, index, direction)
        ELSE IF direction = 1 THEN StartsWithTabItem(lines[index])
        ELSE EndsWithTabItem(lines[index])

\* lines 477-489 from line i on, in_tab_group as the loop has left it
RECURSIVE tabs_scan(_, _, _)
tabs_scan(lines, i, in_tab_group) ==
    IF i > Len(lines) THEN <<>>
    ELSE LET opens == /\ StartsWithTabItem(lines[i])
                      /\ ~is_next_non_blank_line_tabitem(lines, i, -1)
                      /\ ~in_tab_group
             group1 == in_tab_group \/ opens
             closes == /\ EndsWithTabItem(lines[i])
                       /\ ~is_next_non_blank_line_tabitem(lines, i, 1)
                       /\ group1
         IN  (IF opens THEN << <<"<Tabs>">> >> ELSE <<>>)
             \o <<lines[i]>>
             \o (IF closes THEN << <<"</Tabs>">> >> ELSE <<>>)
             \o tabs_scan(lines, i + 1, group1 /\ ~closes)

add_tabs_tags(lines) == tabs_scan(lines, 1, FALSE)

(***************************************************************************)
(* Specification of add_tabs_tags                                          *)
(***************************************************************************)
TabsLines ==
    {<<"<TabItem", " value=\"x\">">>, <<"</TabItem>">>,
     <<"<TabItem", ">", "x", "</TabItem>">>, EmptyLine, <<"x">>}
TabsDocs == SeqsUpTo(TabsLines, MaxTabsDocLen) \ {<<>>}

InitTabs ==
    /\ MainIdle
    /\ file_content \in TabsDocs
    /\ prev_content = file_content
    /\ op = "none"
    /\ start_pattern = None
    /\ end_pattern = None
    /\ raised = ""
    /\ iter = <<>>

AddTabsTags ==
    /\ UNCHANGED mainvars
    /\ op = "none"
    /\ file_content' = add_tabs_tags(file_content)
    /\ prev_content' = file_content
    /\ op' = "add_tabs_tags"
    /\ UNCHANGED <<start_pattern, end_pattern, raised, iter>>

NextTabs == AddTabsTags

SpecTabs == InitTabs /\ [][NextTabs]_vars

(***************************************************************************)
(* Properties of the section relocator                                     *)
(***************************************************************************)
\* line i of lines lies in a section: some line s <= i starts with the start
\* marker and no line after s up to i starts with the start or the end marker
InSection(lines, sp, ep, i) ==
    \E s \in 1..i :
        /\ StartsWith(lines[s], sp)
        /\ \A k \in (s + 1)..i :
              /\ ~StartsWith(lines[k], sp)
              /\ ~(ep # None /\ StartsWith(lines[k], ep))

Matched(lines, sp, ep) == {i \in 1..Len(lines) : InSection(lines, sp, ep, i)}
NonMatched(lines, sp, ep) == (1..Len(lines)) \ Matched(lines, sp, ep)

\* C1: the lines of move_to_top(D, start, end), and of move_to_bottom(D, start,
\* end) for a set end marker, are a permutation of the lines of D: the call
\* returns, and every line occurs in the result as often as in D.
C1_Permutation ==
    /\ op = "move_to_top" =>
          /\ raised = ""
          /\ SeqToBag(file_content) = SeqToBag(prev_content)
    /\ (op = "move_to_bottom" /\ end_pattern # None) =>
          /\ raised = ""
          /\ SeqToBag(file_content) = SeqToBag(prev_content)

C1_Witness ==
    /\ op = "move_to_bottom"
    /\ end_pattern # None
    /\ raised = ""
    /\ file_content # prev_content
    /\ Len(prev_content) = MaxDocLen

\* C2: move_to_top returns the lines that lie in a section, in file order,
\* followed by the lines that lie in none, in file order; a section opens at
\* each line starting with the start marker and closes before the next line
\* starting with the end marker or with the start marker, or at the end.
C2_SectionsFirst ==
    op = "move_to_top" =>
        file_content =
            Keep(prev_content, 1, NonMatched(prev_content, start_pattern, end_pattern))
            \o Keep(prev_content, 1, Matched(prev_content, start_pattern, end_pattern))

C2_Witness ==
    /\ op = "move_to_top"
    /\ Len(move_to_top_sections(prev_content, start_pattern, end_pattern)) >= 2
    /\ ~StartsWith(prev_content[1], start_pattern)
    /\ file_content # prev_content

\* C3: when no line of D starts with the start marker, move_to_top, and
\* move_to_bottom with a set end marker, return D unchanged.
C3_AbsentMarkerUnchanged ==
    (/\ op \in {"move_to_top", "move_to_bottom"}
     /\ op = "move_to_bottom" => end_pattern # None
     /\ \A i \in 1..Len(prev_content) : ~StartsWith(prev_content[i], start_pattern))
    => (raised = "" /\ file_content = prev_content)

C3_Witness ==
    /\ op = "move_to_bottom"
    /\ end_pattern # None
    /\ \A i \in 1..Len(prev_content) : ~StartsWith(prev_content[i], start_pattern)
    /\ \E i \in 1..Len(prev_content) : StartsWith(prev_content[i], end_pattern)
    /\ Len(prev_content) = MaxDocLen
    /\ file_content = prev_content

\* C4: for every document and markers, an unset end marker included,
\* move_to_bottom returns, and returns the lines that lie in none of the
\* sections move_to_top identifies followed by those sections.
C4_BottomMatchesLikeTop ==
    op = "move_to_bottom" =>
        /\ raised = ""
        /\ LET sections == move_to_top_sections(prev_content, start_pattern, end_pattern)
           IN  file_content = rest_of_content(prev_content, sections)
                              \o Flatten(section_contents(prev_content, sections))

(***************************************************************************)
(* Properties of move_responses_to_top                                     *)
(***************************************************************************)
IsResponseAnchor(line) ==
    /\ IsAnchor(line)
    /\ AnchorName(line) # <<>>
    /\ AnchorName(line)[Len(AnchorName(line))] = "Response"

\* the anchor without a Response name nearest behind the first line equal to sp
NearestFollowing(lines, sp) ==
    LET after == {j \in 1..Len(lines) :
                    /\ j > Find(lines, sp)
                    /\ IsAnchor(lines[j])
                    /\ ~IsResponseAnchor(lines[j])}
    IN  IF after = {} THEN None
        ELSE lines[CHOOSE j \in after : \A k \in after : j <= k]

\* C5: for each anchor whose name ends in Response, the end marker handed to
\* move_to_top is the non-Response anchor nearest behind the Response anchor,
\* and it is unset only when no non-Response anchor follows.
C5_NearestEndMarker ==
    op = "move_responses_to_top" =>
        \A k \in 1..Len(iter[1]) :
            find_end_pattern(prev_content, Anchor(iter[1][k]), iter[2], 1)
                = NearestFollowing(prev_content, Anchor(iter[1][k]))

\* the Response anchor lines of a document, in document order
RECURSIVE ResponseAnchors(_)
ResponseAnchors(lines) ==
    IF lines = <<>> THEN <<>>
    ELSE (IF IsResponseAnchor(Head(lines)) THEN <<Head(lines)>> ELSE <<>>)
         \o ResponseAnchors(Tail(lines))

\* C6: for a document with two or more distinct Response anchors the result
\* keeps the Response sections in their document order and is the same
\* whatever order the two sets are iterated in.
C6_OrderIndependent ==
    (/\ op = "move_responses_to_top"
     /\ Cardinality(response_struct_patterns(prev_content)) >= 2)
    => /\ ResponseAnchors(file_content) = ResponseAnchors(prev_content)
       /\ \A ro \in Permutations_of(response_struct_patterns(prev_content)),
             no \in Permutations_of(non_response_patterns(prev_content)) :
             move_responses_to_top(prev_content, ro, no) = file_content

(***************************************************************************)
(* Properties of find_method_blocks_and_relocate                           *)
(***************************************************************************)
Relocated == {".Get", ".Packed", ".Raw"}

\* a type section with its three execution blocks: one anchor of the type,
\* and behind it one anchor each for Get, Packed and Raw, in any order, each
\* closed by a later anchor
HasThreeBlocks(lines) ==
    /\ Cardinality({i \in 1..Len(lines) : lines[i] = Anchor(TypeX)}) = 1
    /\ \A d \in Relocated :
          /\ Cardinality({i \in 1..Len(lines) : lines[i] = Anchor(TypeX \o <<d>>)}) = 1
          /\ Find(lines, Anchor(TypeX \o <<d>>)) > Find(lines, Anchor(TypeX))
          /\ \E j \in (Find(lines, Anchor(TypeX \o <<d>>)) + 1)..Len(lines) :
                StartsWithA(lines[j])

\* the block of the method d: from its anchor to the line before the next anchor
BlockOf(lines, d) ==
    LET i == Find(lines, Anchor(TypeX \o <<d>>))
        j == CHOOSE j \in (i + 1)..Len(lines) :
                /\ StartsWithA(lines[j])
                /\ \A k \in (i + 1)..(j - 1) : ~StartsWithA(lines[k])
    IN  SubSeq(lines, i, j - 1)

OccursAt(lines, k, block) ==
    k >= 1 /\ k + Len(block) - 1 <= Len(lines) /\ SubSeq(lines, k, k + Len(block) - 1) = block

\* C7: for a type section whose Get, Raw and Packed blocks appear in any
\* document order, the output holds the heading "## TypeX Execution Methods"
\* and behind it the Get block, then the Packed block, then the Raw block.
C7_ExecutionOrder ==
    (op = "find_method_blocks_and_relocate" /\ HasThreeBlocks(prev_content))
    => /\ raised = ""
       /\ \E h, g, p, r \in 1..Len(file_content) :
             /\ file_content[h] = ExecutionHeader(TypeX)
             /\ h < g
             /\ OccursAt(file_content, g, BlockOf(prev_content, ".Get"))
             /\ g + Len(BlockOf(prev_content, ".Get")) <= p
             /\ OccursAt(file_content, p, BlockOf(prev_content, ".Packed"))
             /\ p + Len(BlockOf(prev_content, ".Packed")) <= r
             /\ OccursAt(file_content, r, BlockOf(prev_content, ".Raw"))

\* C8: the relocated Get, Packed and Raw blocks form one contiguous run right
\* behind the Execution Methods heading, whatever their lengths: no other
\* line lies between the heading and a block or between two blocks.  Stated
\* for the documents whose blocks stand in the order Get, Packed, Raw, the
\* order in which the deletion of the originals removes the right lines.
C8_ContiguousRun ==
    (/\ op = "find_method_blocks_and_relocate"
     /\ HasThreeBlocks(prev_content)
     /\ Find(prev_content, Anchor(TypeX \o <<".Get">>))
            < Find(prev_content, Anchor(TypeX \o <<".Packed">>))
     /\ Find(prev_content, Anchor(TypeX \o <<".Packed">>))
            < Find(prev_content, Anchor(TypeX \o <<".Raw">>)))
    => /\ raised = ""
       /\ \E h \in 1..Len(file_content) :
             OccursAt(file_content, h,
                      <<ExecutionHeader(TypeX)>>
                      \o BlockOf(prev_content, ".Get")
                      \o BlockOf(prev_content, ".Packed")
                      \o BlockOf(prev_content, ".Raw"))

\* C9: whatever the document order of the Get, Raw and Packed blocks, the
\* lines of the output are the lines of the input plus the two synthesized
\* headings: every line of a relocated block occurs once, and no other line
\* is deleted.
C9_DeletesExactlyTheBlocks ==
    (op = "find_method_blocks_and_relocate" /\ HasThreeBlocks(prev_content))
    => /\ raised = ""
       /\ SeqToBag(file_content) =
             SeqToBag(prev_content)
             (+) SetToBag({ExecutionHeader(TypeX), SetterHeader(TypeX)})

\* C10: when a type is found and has a method block, the output holds the
\* heading "## {type_name} Setter Methods" with, right behind it, the anchor
\* line of the method block that started first in the input.
C10_SetterHeadingBeforeFirstMethod ==
    (/\ op = "find_method_blocks_and_relocate"
     /\ raised = ""
     /\ \E t \in 1..Len(prev_content) :
           /\ prev_content[t] = Anchor(TypeX)
           /\ \A k \in 1..(t - 1) : ~IsTypeAnchor(prev_content[k])
           /\ \E i \in (t + 1)..Len(prev_content) : IsMethodAnchor(prev_content[i], TypeX))
    => LET t == Find(prev_content, Anchor(TypeX))
           first == CHOOSE i \in (t + 1)..Len(prev_content) :
                       /\ IsMethodAnchor(prev_content[i], TypeX)
                       /\ \A k \in (t + 1)..(i - 1) : ~IsMethodAnchor(prev_content[k], TypeX)
       IN  \E k \in 1..(Len(file_content) - 1) :
              /\ file_content[k] = SetterHeader(TypeX)
              /\ file_content[k + 1] = prev_content[first]

\* C11: for every document find_method_blocks_and_relocate returns a
\* document and raises no error, whichever marker is absent: the Request
\* anchor, a "## type" line behind it, or an anchor behind a Get, Raw or
\* Packed anchor that would close its block.
C11_NeverRaises ==
    op = "find_method_blocks_and_relocate" => raised = ""

(***************************************************************************)
(* Properties of the combine phase                                         *)
(***************************************************************************)
\* the files can all be read and none of them holds a URL of the table
NoTableUrl(fs) ==
    /\ fs # <<>>
    /\ \A f \in 1..Len(fs) :
          /\ fs[f] # Unreadable
          /\ \A k \in 1..Len(fs[f]) : fs[f][k] \notin DOMAIN URL_TO_INFO

\* C12: when the content of the input files holds no URL that is a key of
\* the metadata table, the run ends with exit code 1 from sys.exit, the save
\* step is never reached and no output file is written.
C12_NoMatchExitsWithoutSaving ==
    NoTableUrl(files) =>
        /\ pc # "save"
        /\ written = {}
        /\ raised = ""
        /\ pc = "exited" => exit_code = 1

C12_Witness ==
    /\ NoTableUrl(files)
    /\ \E f \in 1..Len(files) : \E k \in 1..Len(files[f]) : IsUrl(files[f][k])
    /\ Len(files) = MaxFiles
    /\ pc = "exited"
    /\ exit_code = 1
    /\ written = {}

(***************************************************************************)
(* Properties of correct_escaping_in_links                                 *)
(***************************************************************************)
\* C13 as stated: on [/v1\\/foo/{bar}] the result is [/v1/foo/'{bar}'] (' for U+0060), the
\* backslashes removed and the backticks around the brace part only.
C13_BackticksAroundBraces ==
    (op = "correct_escaping_in_links" /\ prev_content = BracedLink)
    => file_content = <<"[", "/v1", "/foo/", Backtick, "{", "bar", "}", Backtick, "]">>

\* C13 as amended: on [/v1\\/foo/{bar}] the result is ['/v1/foo/{bar}'] (' for U+0060), the
\* backslashes removed and the backticks around the whole text between the
\* brackets.
C13_BackticksAroundText ==
    (op = "correct_escaping_in_links" /\ prev_content = BracedLink)
    => file_content = <<"[", Backtick, "/v1", "/foo/", "{", "bar", "}", Backtick, "]">>

C13_Witness ==
    /\ op = "correct_escaping_in_links"
    /\ prev_content = BracedLink
    /\ file_content # prev_content

(***************************************************************************)
(* Properties of add_anchor_tags                                           *)
(***************************************************************************)
\* the type named by the nearest "type " line before position i
NearestTypeBefore(lines, i) ==
    LET types == {j \in 1..(i - 1) : IsTypeLine(lines[j])}
    IN  lines[CHOOSE j \in types : \A k \in types : k <= j][2]

\* the line was given a target with a type prefix: the output of a list
\* line processed in a section other than "#### Generated By"
HasTypedTarget(line) ==
    /\ StartsWith(line, <<"- ", "<a href=\"#">>)
    /\ Find(line, ".") # NoIndex
    /\ Find(line, ".") < Find(line, "\">")

\* C14: every list line processed in a section other than "#### Generated
\* By" that has a "type " line before it gets the target T.method, T the
\* type named by the nearest "type " line before the position of the list
\* line itself.
C14_NearestPrecedingType ==
    op = "add_anchor_tags" =>
        \A i \in 1..Len(prev_content) :
            (/\ StartsWithDash(prev_content[i])
             /\ HasTypedTarget(file_content[i])
             /\ \E j \in 1..(i - 1) : IsTypeLine(prev_content[j]))
            => file_content[i] =
                   <<"- ", "<a href=\"#", NearestTypeBefore(prev_content, i), ".">>
                   \o anchor_of(prev_content[i]) \o <<"\">", Backtick>>
                   \o SubSeq(prev_content[i], 3, Len(prev_content[i]))
                   \o <<"</a>">>

(***************************************************************************)
(* Properties of add_tabs_tags                                             *)
(***************************************************************************)
\* the first closing line at or behind line i
ItemEnd(lines, i) ==
    IF \E j \in i..Len(lines) : EndsWithTabItem(lines[j])
    THEN CHOOSE j \in i..Len(lines) :
            /\ EndsWithTabItem(lines[j])
            /\ \A k \in i..(j - 1) : ~EndsWithTabItem(lines[k])
    ELSE NoIndex

\* the lines from..to are all blank
AllBlank(lines, from, to) == \A k \in from..to : lines[k] = EmptyLine

\* the next line behind j that is not blank, NoIndex when there is none
NextNonBlank(lines, j) ==
    IF \E k \in (j + 1)..Len(lines) : lines[k] # EmptyLine
    THEN CHOOSE k \in (j + 1)..Len(lines) :
            lines[k] # EmptyLine /\ AllBlank(lines, j + 1, k - 1)
    ELSE NoIndex

\* the document with every maximal run of tab items wrapped: a tab item is
\* an opening line and the lines up to its closing line, read from the top;
\* prev_end is the closing line of the item before (0 when there is none)
RECURSIVE WrapRuns(_, _, _)
WrapRuns(lines, i, prev_end) ==
    IF i > Len(lines) THEN <<>>
    ELSE IF StartsWithTabItem(lines[i]) /\ ItemEnd(lines, i) # NoIndex
    THEN LET j == ItemEnd(lines, i)
             first == prev_end = 0 \/ ~AllBlank(lines, prev_end + 1, i - 1)
             n == NextNonBlank(lines, j)
             last == ~(/\ n # NoIndex
                       /\ StartsWithTabItem(lines[n])
                       /\ ItemEnd(lines, n) # NoIndex)
         IN  (IF first THEN << <<"<Tabs>">> >> ELSE <<>>)
             \o SubSeq(lines, i, j)
             \o (IF last THEN << <<"</Tabs>">> >> ELSE <<>>)
             \o WrapRuns(lines, j + 1, j)
    ELSE <<lines[i]>> \o WrapRuns(lines, i + 1, prev_end)

\* each opening line is later followed by a closing line
EveryOpeningClosed(lines) ==
    \A i \in 1..Len(lines) :
        StartsWithTabItem(lines[i]) => ItemEnd(lines, i) # NoIndex

\* each closing line closes a tab item: an opening line stands at or before
\* it with no other closing line between them
EveryClosingOpened(lines) ==
    \A j \in 1..Len(lines) :
        EndsWithTabItem(lines[j]) =>
            \E i \in 1..j : /\ StartsWithTabItem(lines[i])
                            /\ \A k \in i..(j - 1) : ~EndsWithTabItem(lines[k])

\* C15 as stated: in a document where each opening line is later followed by a closing
\* line, every maximal run of tab items (separated only by blank lines) gets
\* one <Tabs> line before its first opening line and one </Tabs> line behind
\* its last closing line, and no other line changes.
C15_RunsWrappedOnce ==
    (op = "add_tabs_tags" /\ EveryOpeningClosed(prev_content))
    => file_content = WrapRuns(prev_content, 1, 0)

\* C15 as amended: in a document where each opening line is later followed
\* by a closing line and each closing line closes a tab item, every maximal
\* run of tab items (separated only by blank lines) gets one <Tabs> line
\* before its first opening line and one </Tabs> line behind its last closing
\* line, and no other line changes.
C15_PairedRunsWrappedOnce ==
    (/\ op = "add_tabs_tags"
     /\ EveryOpeningClosed(prev_content)
     /\ EveryClosingOpened(prev_content))
    => file_content = WrapRuns(prev_content, 1, 0)

\* two runs, one of them of two items with a blank line between them
C15_Witness ==
    /\ op = "add_tabs_tags"
    /\ EveryOpeningClosed(prev_content)
    /\ EveryClosingOpened(prev_content)
    /\ Len(file_content) = Len(prev_content) + 4
    /\ \E k \in 2..(Len(prev_content) - 1) :
          /\ prev_content[k] = EmptyLine
          /\ EndsWithTabItem(prev_content[k - 1])
          /\ StartsWithTabItem(prev_content[k + 1])

(***************************************************************************)
(* Properties of the repeated call                                         *)
(***************************************************************************)
\* C16: move_to_top and move_to_bottom are idempotent: the second call, on
\* the content the first call returned and with the same markers, returns
\* that content unchanged (and does not raise).
C16_Idempotent ==
    op \in {"move_to_top_again", "move_to_bottom_again"} =>
        /\ file_content = prev_content
        /\ raised = ""

\* a second call on a returned content of two different sections and a line
\* outside them
C16_Witness ==
    /\ op \in {"move_to_top_again", "move_to_bottom_again"}
    /\ Len(prev_content) = MaxDocLen
    /\ \E i, j \in 1..Len(prev_content) :
          /\ i < j
          /\ StartsWith(prev_content[i], start_pattern)
          /\ StartsWith(prev_content[j], start_pattern)
          /\ prev_content[i] # prev_content[j]
    /\ \E i \in 1..Len(prev_content) : ~StartsWith(prev_content[i], start_pattern)
    /\ end_pattern # None

====
